---- MODULE Spec2Model ----
(***************************************************************************)
(* A model of the retrieval-augmented generation pipeline of rag_web:      *)
(*   rag_pipeline.py  BaseRAGPipeline (rewrite, retrieve, rerank, context, *)
(*                    blocking generation, relevance diagnostics)          *)
(*   rag_manager.py   RAGManager.query_database / query_database_stream    *)
(*   database_manager.py  DatabaseManager.get_database / delete_database   *)
(*   api.py           chat, chat_stream, history endpoints                 *)
(*                                                                         *)
(* Text is a sequence of tokens (TLA+ strings); "" of Python is << >>.     *)
(* Message literals of the source are Chinese; they are written here as    *)
(* ASCII glosses, one token per literal.  Floats with one decimal are      *)
(* integers in tenths (1.8 is 18).                                         *)
(***************************************************************************)
EXTENDS Integers, Sequences, FiniteSets, TLC

\* ---------------------------------------------------------------- bounds
MaxRequested == 4      \* largest requested result count n_results
MaxDocs == 3           \* most candidates one vector search returns
MaxLines == 3          \* most backend lines one streamed response carries
MaxRequests == 2       \* request slots that can be in flight at once
MaxStarted == 3        \* requests started in one behaviour of the API

\* ------------------------------------------------------- python helpers
Min(a, b) == IF a <= b THEN a ELSE b
Max(a, b) == IF a >= b THEN a ELSE b

Range(s) == {s[i] : i \in 1..Len(s)}

\* math.ceil(num / den) for den > 0
CeilDiv(num, den) == IF num % den = 0 THEN num \div den ELSE (num \div den) + 1

\* s[:k], for any integer k
SliceTo(s, k) ==
  IF k >= 0 THEN SubSeq(s, 1, Min(k, Len(s)))
  ELSE SubSeq(s, 1, Max(0, Len(s) + k))

\* s[-k:], for k > 0
SliceLast(s, k) == SubSeq(s, Max(1, Len(s) - k + 1), Len(s))

\* a variant that sorts ascending (reverse=True left out)
SortedDesc_ascending(s, keys) ==
  LET before(i) == {j \in 1..Len(s) : keys[j] < keys[i] \/ (keys[j] = keys[i] /\ j < i)}
  IN  [p \in 1..Len(s) |-> s[CHOOSE i \in 1..Len(s) : Cardinality(before(i)) + 1 = p]]

\* stable sort of s, descending by keys (keys[i] is the key of s[i]):
\* Python's sorted(..., reverse=True) keeps equal keys in input order
SortedDesc(s, keys) ==
  LET before(i) == {j \in 1..Len(s) : keys[j] > keys[i] \/ (keys[j] = keys[i] /\ j < i)}
  IN  [p \in 1..Len(s) |-> s[CHOOSE i \in 1..Len(s) : Cardinality(before(i)) + 1 = p]]

\* str.strip(), str.splitlines()[0] on token text
Whitespace == {" ", "\n"}
Strip(t) ==
  LET keep == {i \in 1..Len(t) : t[i] \notin Whitespace}
  IN  IF keep = {} THEN << >>
      ELSE SubSeq(t, CHOOSE i \in keep : \A j \in keep : i <= j,
                     CHOOSE i \in keep : \A j \in keep : i >= j)
\* a variant that keeps every line of the reply
FirstLine_whole(t) == t

\* rewritten.splitlines()[0], line 110
FirstLine(t) ==
  LET nl == {i \in 1..Len(t) : t[i] = "\n"}
  IN  IF nl = {} THEN t
      ELSE SubSeq(t, 1, (CHOOSE i \in nl : \A j \in nl : i <= j) - 1)

\* ------------------------------------------------------------------ state
VARIABLES
  enable_query_rewrite,    \* BaseRAGPipeline.enable_query_rewrite
  enable_rerank,           \* BaseRAGPipeline.enable_rerank
  retrieval_multiplier,    \* BaseRAGPipeline.retrieval_multiplier, in tenths
  max_retrieve_results,    \* BaseRAGPipeline.max_retrieve_results (0: no cap)
  _reranker,               \* BaseRAGPipeline._reranker ("None" or the model)
  _reranker_available,     \* BaseRAGPipeline._reranker_available
  _last_reranker_error     \* BaseRAGPipeline._last_reranker_error

config == <<enable_query_rewrite, enable_rerank, retrieval_multiplier, max_retrieve_results>>
reranker == <<_reranker, _reranker_available, _last_reranker_error>>

\* the reranker fields as one value, for the operators below
RerankerState ==
  [reranker |-> _reranker, available |-> _reranker_available, last_error |-> _last_reranker_error]

\* BaseRAGPipeline.__init__: the multiplier is clamped to at least 1.0
ClampMultiplier(m) == Max(10, m)

\* ------------------------------------------------------- the LLM backend
\* One response of the backend to a blocking call, by what the code can tell
\* apart: kind is "network_error" (requests.post raises), "http_error"
\* (status is not 200), "unparsable" (200, response.json() raises), "nondict"
\* (200, JSON that is not an object), "no_message", "null_message" (message is
\* not an object), "no_content", or "ok" (message.content is a string).
Reply(kind, status, content) == [kind |-> kind, status |-> status, content |-> content]

Raised(msg) == [raised |-> TRUE, exc |-> msg]
Returned(v) == [raised |-> FALSE, value |-> v]

\* a variant that takes every status for a success
StatusOk_any(status) == TRUE

\* response.status_code == 200 (rag_pipeline.py line 59, rag_manager.py line 240)
StatusOk(status) == status = 200

\* BaseRAGPipeline._call_llm
_call_llm(reply, stream) ==
  IF reply.kind = "network_error" THEN Raised(<<"ConnectionError">>)
  ELSE IF ~StatusOk(reply.status)
    THEN Raised(<<"LLM call failed: ", ToString(reply.status), " - ",
                  IF stream THEN "status=" \o ToString(reply.status) ELSE "response.text">>)
  ELSE IF stream THEN Returned(reply)
  ELSE IF reply.kind = "unparsable" THEN Raised(<<"JSONDecodeError">>)
  ELSE Returned(reply)

\* data.get("message", {}).get("content", "")
MessageContent(data) ==
  IF data.kind \in {"nondict", "null_message"} THEN Raised(<<"AttributeError">>)
  ELSE IF data.kind \in {"no_message", "no_content"} THEN Returned(<< >>)
  ELSE Returned(data.content)

\* BaseRAGPipeline.build_prompt
build_prompt(user_query, context) ==
  <<"Answer from the context.", "\n\n", "Context:", "\n">> \o context
    \o <<"\n\n", "Question:">> \o user_query \o <<"\n\n", "Answer:">>

UserTurn(content) == [role |-> "user", content |-> content]
AssistantTurn(content) == [role |-> "assistant", content |-> content]

\* a call of the backend, as logged in calls: what was sent and what came back
LlmCall(messages, stream, reply) ==
  [fn |-> "_call_llm", messages |-> messages, stream |-> stream, reply |-> reply]

\* a variant without the try/except: the exception of the call propagates
AnswerOrError_uncaught(got) == got

\* lines 80-84: try: return the content; except Exception: return the error text
AnswerOrError(got) ==
  IF got.raised THEN Returned(<<"generate_answer error: ">> \o got.exc)
  ELSE Returned(got.value)

\* a variant that appends the prompt to the caller's list itself
WithPrompt_in_place(history, prompt) ==
  [messages |-> Append(history, prompt), history |-> Append(history, prompt)]

\* rag_pipeline.py lines 77-78 (copy.deepcopy) and rag_manager.py lines
\* 234-235 (history.copy()): the prompt is appended to a copy; history is the
\* caller's list as it is afterwards
WithPrompt(history, prompt) ==
  [messages |-> Append(history, prompt), history |-> history]

\* the generation call as logged: the call, and the caller's history after
\* the messages were built
GenerationCall(built, stream, reply) ==
  LlmCall(built.messages, stream, reply) @@ [history |-> built.history]

\* BaseRAGPipeline.generate_answer: the answer, and the call it made
generate_answer(user_query, context, history, reply) ==
  LET Got(resp) == IF resp.raised THEN resp ELSE MessageContent(resp.value)
  IN  [ret |-> AnswerOrError(Got(_call_llm(reply, FALSE))),
       calls |-> <<GenerationCall(WithPrompt(history, UserTurn(build_prompt(user_query, context))),
                                  FALSE, reply)>>]

\* BaseRAGPipeline.rewrite_query
RewriteMessages(query) ==
  <<[role |-> "system", content |-> <<"Rewrite the question for retrieval.">>],
    UserTurn(<<"Question:">> \o query \o <<"\n\n", "Rewritten query only:">>)>>

rewrite_query(query, reply) ==
  IF ~enable_query_rewrite THEN [ret |-> query, calls |-> << >>]
  ELSE
    LET Got(resp) == IF resp.raised THEN resp ELSE MessageContent(resp.value)
        FirstOr(first_line) == IF first_line # << >> THEN first_line ELSE query
        Rewritten(rewritten) ==
          IF rewritten = << >> THEN query ELSE FirstOr(Strip(FirstLine(rewritten)))
        Ret(got) == IF got.raised THEN query ELSE Rewritten(Strip(got.value))
    IN  [ret |-> Ret(Got(_call_llm(reply, FALSE))),
         calls |-> <<LlmCall(RewriteMessages(query), FALSE, reply)>>]

\* ------------------------------------------------- retrieval and reranking
\* a variant that rounds the oversampled count down instead of up
_calc_retrieve_count_floor(requested) ==
  LET extra == (requested * retrieval_multiplier) \div 10
      total == Max(requested, extra)
  IN  IF max_retrieve_results # 0 THEN Min(total, max_retrieve_results) ELSE total

\* BaseRAGPipeline._calc_retrieve_count
_calc_retrieve_count(requested) ==
  LET extra == CeilDiv(requested * retrieval_multiplier, 10)
      total == Max(requested, extra)
  IN  IF max_retrieve_results # 0 THEN Min(total, max_retrieve_results) ELSE total

\* a variant that searches a second time when the search raised
retrieve_documents_retry(rewritten_query, n_results, embed_ok, search) ==
  LET embed == [fn |-> "embed_query", text |-> rewritten_query]
      query == [fn |-> "search", n_results |-> n_results]
  IN  IF ~embed_ok THEN [ret |-> Raised(<<"embedding failed">>), calls |-> <<embed>>]
      ELSE IF search.raises
        THEN [ret |-> Raised(<<"search failed">>), calls |-> <<embed, query, query>>]
      ELSE [ret |-> Returned(SliceTo(search.ranked, n_results)),
            calls |-> <<embed, query @@ [returned |-> SliceTo(search.ranked, n_results)]>>]

\* BaseRAGPipeline.retrieve_documents.  embed_ok: the embedding call answers;
\* search: what the vector store does, [raises, ranked]: ranked is the whole
\* collection in ascending distance for this query, of which
\* VectorStore.search returns the n_results nearest.
retrieve_documents(rewritten_query, n_results, embed_ok, search) ==
  LET embed == [fn |-> "embed_query", text |-> rewritten_query]
      query == [fn |-> "search", n_results |-> n_results]
  IN  IF ~embed_ok THEN [ret |-> Raised(<<"embedding failed">>), calls |-> <<embed>>]
      ELSE IF search.raises THEN [ret |-> Raised(<<"search failed">>), calls |-> <<embed, query>>]
      ELSE [ret |-> Returned(SliceTo(search.ranked, n_results)),
            calls |-> <<embed, query @@ [returned |-> SliceTo(search.ranked, n_results)]>>]

\* a variant without the early return of lines 138-139: the model is
\* constructed again although one is loaded
_ensure_reranker_reload(rs, load_ok) ==
  IF ~enable_rerank \/ ~rs.available THEN [rs |-> rs, calls |-> << >>]
  ELSE [rs |-> IF load_ok THEN [rs EXCEPT !.reranker = "CrossEncoder"]
               ELSE [rs EXCEPT !.available = FALSE, !.last_error = "load failed"],
        calls |-> <<[fn |-> "CrossEncoder", raised |-> ~load_ok]>>]

\* a variant whose except branch records the error but leaves the
\* availability flag as it was
_ensure_reranker_forgetful(rs, load_ok) ==
  IF ~enable_rerank \/ ~rs.available THEN [rs |-> rs, calls |-> << >>]
  ELSE IF rs.reranker # "None" THEN [rs |-> rs, calls |-> << >>]
  ELSE [rs |-> IF load_ok THEN [rs EXCEPT !.reranker = "CrossEncoder"]
               ELSE [rs EXCEPT !.last_error = "load failed"],
        calls |-> <<[fn |-> "CrossEncoder", raised |-> ~load_ok]>>]

\* BaseRAGPipeline._ensure_reranker; load_ok: CrossEncoder(...) constructs
_ensure_reranker(rs, load_ok) ==
  IF ~enable_rerank \/ ~rs.available THEN [rs |-> rs, calls |-> << >>]
  ELSE IF rs.reranker # "None" THEN [rs |-> rs, calls |-> << >>]
  ELSE [rs |-> IF load_ok THEN [rs EXCEPT !.reranker = "CrossEncoder"]
               ELSE [rs EXCEPT !.available = FALSE, !.last_error = "load failed"],
        calls |-> <<[fn |-> "CrossEncoder", raised |-> ~load_ok]>>]

\* a variant that keeps only the content next to the score
WithRerankScore_bare(doc, score) == [content |-> doc.content, rerank_score |-> score]

\* doc_copy = deepcopy(doc); doc_copy["rerank_score"] = float(score)
WithRerankScore(doc, score) ==
  [content |-> doc.content, distance |-> doc.distance, rerank_score |-> score]

\* a variant that returns the candidates without cutting them to top_k
Truncated_whole(retrieved_documents, top_k) == retrieved_documents

\* return retrieved_documents[:top_k] (lines 162, 166, 182)
Truncated(retrieved_documents, top_k) == SliceTo(retrieved_documents, top_k)

\* lines 169-170: scores = self._reranker.predict(pairs), one score per
\* (query, content) pair, in the order of the candidates
Scores(predict, retrieved_documents) ==
  [i \in 1..Len(retrieved_documents) |-> predict.score_of[retrieved_documents[i].content]]

\* a variant that writes rerank_score into the candidate itself (no deepcopy)
Candidates_in_place(retrieved_documents, enriched_docs) == enriched_docs

\* lines 173-176: the score goes into a deep copy of each candidate, so the
\* caller's list and the candidates in it are after the call what they were
Candidates(retrieved_documents, enriched_docs) == retrieved_documents

\* BaseRAGPipeline.rerank_documents.  predict: what CrossEncoder.predict does,
\* [raises, score_of]: score_of maps a candidate's content to its score.
rerank_documents(rs, original_query, retrieved_documents, top_k, load_ok, predict) ==
  IF retrieved_documents = << >>
    THEN [ret |-> << >>, input |-> retrieved_documents, rs |-> rs, calls |-> << >>]
  ELSE IF ~enable_rerank \/ ~rs.available
    THEN [ret |-> Truncated(retrieved_documents, top_k), input |-> retrieved_documents,
          rs |-> rs, calls |-> << >>]
  ELSE
    LET Scoring(model, scores) ==
          [fn |-> "predict", query |-> original_query, pairs |-> Len(retrieved_documents),
           model |-> model, raised |-> predict.raises, scores |-> scores,
           score_of |-> predict.score_of]
        Sorted(ensured, scores, enriched_docs) ==
          [ret |-> SliceTo(SortedDesc(enriched_docs, scores), top_k),
           input |-> Candidates(retrieved_documents, enriched_docs),
           rs |-> ensured.rs,
           calls |-> Append(ensured.calls, Scoring(ensured.rs.reranker, scores))]
        Enrich(ensured, scores) ==
          Sorted(ensured, scores,
                 [i \in 1..Len(retrieved_documents) |->
                    WithRerankScore(retrieved_documents[i], scores[i])])
        Ensured(ensured) ==
          IF ensured.rs.reranker = "None"
            THEN [ret |-> Truncated(retrieved_documents, top_k),
                  input |-> retrieved_documents, rs |-> ensured.rs,
                  calls |-> ensured.calls]
          ELSE IF predict.raises
            THEN [ret |-> Truncated(retrieved_documents, top_k),
                  input |-> retrieved_documents, rs |-> ensured.rs,
                  calls |-> Append(ensured.calls, Scoring(ensured.rs.reranker, << >>))]
          ELSE Enrich(ensured, Scores(predict, retrieved_documents))
    IN  Ensured(_ensure_reranker(rs, load_ok))

\* BaseRAGPipeline.build_context
\* doc.get('content', '')
ContentOf(doc) == IF "content" \in DOMAIN doc THEN doc.content ELSE ""

\* a variant that numbers the blocks from 0
ContextTag_zero_based(idx) == "[doc" \o ToString(idx - 1) \o "]"

\* line 192: the tag of the idx-th block, enumerate(documents, start=1)
ContextTag(idx) == "[doc" \o ToString(idx) \o "]"

RECURSIVE ContextParts(_, _)
ContextParts(documents, idx) ==
  IF idx > Len(documents) THEN << >>
  ELSE (IF idx = 1 THEN << >> ELSE <<"\n\n">>)
       \o <<ContextTag(idx), "\n", ContentOf(documents[idx])>>
       \o ContextParts(documents, idx + 1)

build_context(documents) ==
  IF documents = << >> THEN <<"no relevant documents found">>
  ELSE ContextParts(documents, 1)

\* a variant that looks at the distance before the rerank score
RelevanceEntry_distance_first(doc, idx) ==
  [score |-> IF "distance" \in DOMAIN doc THEN 10 - doc.distance
             ELSE IF "rerank_score" \in DOMAIN doc THEN doc.rerank_score
             ELSE 0,
   source_index |-> idx]

\* BaseRAGPipeline.get_document_relevance_scores (scores in tenths)
RelevanceEntry(doc, idx) ==
  [score |-> IF "rerank_score" \in DOMAIN doc THEN doc.rerank_score
             ELSE IF "distance" \in DOMAIN doc THEN 10 - doc.distance
             ELSE 0,
   source_index |-> idx]

\* isinstance(doc, dict), line 239: an entry that is no dict is skipped
IsDict(doc) == "nondict" \notin DOMAIN doc

\* lines 238-277: one entry per dict of documents, in their order, each with
\* its position in documents (from 0)
RECURSIVE ScoredDocs(_, _)
ScoredDocs(documents, i) ==
  IF i > Len(documents) THEN << >>
  ELSE (IF IsDict(documents[i]) THEN <<RelevanceEntry(documents[i], i - 1)>> ELSE << >>)
       \o ScoredDocs(documents, i + 1)

\* a variant of the sort that reverses an ascending sort: entries of equal
\* score come out in reverse input order
SortByScore_reversed(scored_docs) ==
  LET n == Len(scored_docs)
      before(i) == {j \in 1..n : scored_docs[j].score > scored_docs[i].score
                                   \/ (scored_docs[j].score = scored_docs[i].score /\ j > i)}
  IN  [p \in 1..n |-> scored_docs[CHOOSE i \in 1..n : Cardinality(before(i)) + 1 = p]]

\* line 279: scored_docs.sort(key=score, reverse=True)
SortByScore(scored_docs) ==
  SortedDesc(scored_docs, [i \in 1..Len(scored_docs) |-> scored_docs[i].score])

get_document_relevance_scores(documents, top_k) ==
  IF documents = << >> THEN << >>
  ELSE SliceTo(SortByScore(ScoredDocs(documents, 1)), top_k)

\* ------------------------------------------------------------ run_pipeline
\* env: what the collaborators do during one request:
\*   rewrite, llm: replies of the backend to the rewrite and generation calls
\*   embed_ok, search: see retrieve_documents
\*   load_ok, predict: see _ensure_reranker and rerank_documents
\*   plot_ok: plot_document_relevance draws without an exception

\* a variant that retrieves with the user's query instead of the rewritten one
SearchQuery_original(user_query, rewritten_query) == user_query

\* lines 208 and 219: retrieval is given the rewritten query
SearchQuery(user_query, rewritten_query) == rewritten_query

\* the stages before generation, shared by run_pipeline (lines 206-210) and
\* query_database_stream (lines 217-221).  initial_docs names the list that
\* rerank_documents was given: it is reported as that list is after the call.
Retrieval(rs, user_query, n_results, env) ==
  LET Reranked(rw, retrieve_k, found, initial_docs, ranked) ==
        IF found.ret.raised
          THEN [raised |-> TRUE, exc |-> found.ret.exc, rs |-> rs,
                calls |-> rw.calls \o found.calls]
        ELSE [raised |-> FALSE, rs |-> ranked.rs,
              calls |-> rw.calls \o found.calls \o ranked.calls,
              rewritten_query |-> rw.ret,
              retrieve_k |-> retrieve_k,
              initial_docs |-> ranked.input,
              final_docs |-> ranked.ret,
              context |-> build_context(ranked.ret)]
      Rerank(rw, retrieve_k, found, initial_docs) ==
        Reranked(rw, retrieve_k, found, initial_docs,
                 rerank_documents(rs, user_query, initial_docs, n_results,
                                  env.load_ok, env.predict))
      Retrieved(rw, retrieve_k, found) == Rerank(rw, retrieve_k, found, found.ret.value)
      Retrieve(rw, retrieve_k) ==
        Retrieved(rw, retrieve_k,
                  retrieve_documents(SearchQuery(user_query, rw.ret), retrieve_k,
                                     env.embed_ok, env.search))
  IN  Retrieve(rewrite_query(user_query, env.rewrite), _calc_retrieve_count(n_results))

\* BaseRAGPipeline.run_pipeline
run_pipeline(rs, user_query, n_results, history, env) ==
  LET Answered(r, answer) ==
        IF r.raised THEN r
        ELSE IF answer.ret.raised
          THEN [raised |-> TRUE, exc |-> answer.ret.exc, rs |-> r.rs,
                calls |-> r.calls \o answer.calls]
        ELSE [raised |-> FALSE, rs |-> r.rs, calls |-> r.calls \o answer.calls,
              value |-> [query |-> user_query,
                         rewritten_query |-> r.rewritten_query,
                         retrieved_documents |-> r.final_docs,
                         initial_retrieved_documents |-> r.initial_docs,
                         context |-> r.context,
                         answer |-> answer.ret.value,
                         relevance_scores |->
                           get_document_relevance_scores(r.final_docs, n_results)]]
      Generate(r) == Answered(r, generate_answer(user_query, r.context, history, env.llm))
  IN  Generate(Retrieval(rs, user_query, n_results, env))

\* ------------------------------------------- streamed backend response lines
\* A JSON field of a streamed line: absent, a string, a truthy value that is
\* not a string (NonStr: a number, a list, an object) or a falsy one (Null:
\* null, 0, []).  Null behaves as the empty string wherever the code only
\* tests truthiness; str() of it is a text that is not empty ("None", "[]").
Absent == [has |-> FALSE, isstr |-> FALSE, text |-> << >>]
Str(t) == [has |-> TRUE, isstr |-> TRUE, text |-> t]
NonStr == [has |-> TRUE, isstr |-> FALSE, text |-> <<"repr">>]
Null == [has |-> TRUE, isstr |-> FALSE, text |-> << >>]
Truthy(f) == f.has /\ f.text # << >>

\* One line of response.iter_lines().  raw: "empty" (b""), "undecodable" (not
\* UTF-8), "blank" (whitespace only), "malformed" (not JSON), "nondict" (JSON
\* that is not an object) or "dict"; message: "absent", "bad" (a value on which
\* `'thinking' in message` or message['content'] raises) or "dict".
Line(raw, message, thinking, reasoning, tool_calls, content, done) ==
  [raw |-> raw, message |-> message, thinking |-> thinking, reasoning |-> reasoning,
   tool_calls |-> tool_calls, content |-> content, done |-> done]
Bare(raw) == Line(raw, "absent", Absent, Absent, Absent, Absent, FALSE)

ErrorEvent(content) == [type |-> "error", content |-> content]
ThinkingEvent(thinking_content) == [type |-> "thinking", content |-> thinking_content]
ContentEvent(content, full_content) ==
  [type |-> "content", content |-> content, full_content |-> full_content]
DoneEvent(full_content, thinking_content) ==
  [type |-> "done", full_content |-> full_content, thinking |-> thinking_content]

\* rag_manager.py lines 262-270: the reasoning text of a message
ThinkingText(line) ==
  IF Truthy(line.thinking) THEN line.thinking
  ELSE IF Truthy(line.reasoning) THEN line.reasoning
  ELSE IF line.tool_calls.has
    THEN (IF line.tool_calls.isstr THEN line.tool_calls ELSE Str(<<"repr">>))
  ELSE Absent

\* The body of the for loop of query_database_stream (lines 246-304) on one
\* line.  st: [full_content, thinking_content, json_imported].  The result
\* adds the events yielded and how the loop goes on: "next" (next line),
\* "break" (after done) or "raise" (an exception leaves the loop).
LineResult(st, events, ctl) ==
  [full_content |-> st.full_content, thinking_content |-> st.thinking_content,
   json_imported |-> st.json_imported, events |-> events, ctl |-> ctl]

\* a variant that keeps only the latest piece
Accumulate_overwrite(acc, text) == text

\* full_content += content, thinking_content += thinking_text (lines 273, 283)
Accumulate(acc, text) == acc \o text

\* a variant without the break
LoopControl_continue(done) == "next"

\* lines 291-297: after the done event the loop is left
LoopControl(done) == IF done THEN "break" ELSE "next"

ParseError == ErrorEvent(<<"parse response failed: ", "exception">>)

ProcessLine(st, line) ==
  LET imported == [st EXCEPT !.json_imported = TRUE]
      thinking_text == ThinkingText(line)
      \* lines 272-277
      think == IF ~Truthy(thinking_text) THEN [ok |-> TRUE, st |-> imported, events |-> << >>]
               ELSE IF ~thinking_text.isstr THEN [ok |-> FALSE, st |-> imported, events |-> << >>]
               ELSE LET t == Accumulate(imported.thinking_content, thinking_text.text)
                    IN  [ok |-> TRUE, st |-> [imported EXCEPT !.thinking_content = t],
                         events |-> <<ThinkingEvent(t)>>]
      \* lines 280-288
      cont == IF ~Truthy(line.content) THEN [ok |-> TRUE, st |-> think.st, events |-> think.events]
              ELSE IF ~line.content.isstr
                THEN [ok |-> FALSE, st |-> think.st, events |-> think.events]
              ELSE LET f == Accumulate(think.st.full_content, line.content.text)
                   IN  [ok |-> TRUE, st |-> [think.st EXCEPT !.full_content = f],
                        events |-> Append(think.events, ContentEvent(line.content.text, f))]
      \* lines 255-288
      msg == IF line.message = "absent" THEN [ok |-> TRUE, st |-> imported, events |-> << >>]
             ELSE IF line.message = "bad" THEN [ok |-> FALSE, st |-> imported, events |-> << >>]
             ELSE IF ~think.ok THEN think
             ELSE cont
  IN  IF line.raw \in {"empty", "blank"} THEN LineResult(st, << >>, "next")
      ELSE IF line.raw = "undecodable"
        \* `except json.JSONDecodeError` reads the local name json, which is
        \* bound only once line 251 has run
        THEN (IF st.json_imported THEN LineResult(st, <<ParseError>>, "next")
              ELSE LineResult(st, << >>, "raise"))
      ELSE IF line.raw = "malformed" THEN LineResult(imported, << >>, "next")
      ELSE IF line.raw = "nondict" THEN LineResult(imported, <<ParseError>>, "next")
      ELSE IF ~msg.ok THEN LineResult(msg.st, Append(msg.events, ParseError), "next")
      ELSE IF line.done
        THEN LineResult(msg.st,
               Append(msg.events, DoneEvent(msg.st.full_content, msg.st.thinking_content)),
               LoopControl(TRUE))
      ELSE LineResult(msg.st, msg.events, LoopControl(FALSE))

\* --------------------------------------------------- databases and requests
VARIABLES
  collections,      \* names of the collections the chromadb client holds
  _vector_stores,   \* DatabaseManager._vector_stores: names with a cached store
  chat_histories,   \* api.chat_histories: collection name -> list of turns
  req,              \* request slot -> the locals of the streaming request in it
  started           \* number of requests started so far

database == <<collections, _vector_stores>>
vars == <<config, reranker, database, chat_histories, req, started>>

Slots == 1..MaxRequests

\* a variant that builds a store without checking that the collection exists
get_database_unchecked(name) == [found |-> TRUE, cache |-> _vector_stores \cup {name}]

\* DatabaseManager.get_database: is there a store, and the cache afterwards
get_database(name) ==
  IF name \in _vector_stores THEN [found |-> TRUE, cache |-> _vector_stores]
  ELSE IF name \in collections THEN [found |-> TRUE, cache |-> _vector_stores \cup {name}]
  ELSE [found |-> FALSE, cache |-> _vector_stores]

\* RAGManager._generate_relevance_plot (plot_output_dir is set)
_generate_relevance_plot(documents, n_results, plot_ok) ==
  IF documents = << >> THEN << >>
  ELSE IF plot_ok /\ get_document_relevance_scores(documents, Min(10, n_results)) # << >>
    THEN [relevance_plot_path |-> "path", relevance_plot_url |-> "url"]
  ELSE [relevance_plot_error |-> "exception"]

DbMissingAnswer == <<"database does not exist, create or select one first">>

\* RAGManager.query_database: result, reranker state, cache and calls
query_database(rs, database_name, query, n_results, history, env) ==
  LET Result(vector_store, p) ==
        IF ~vector_store.found
          THEN [result |-> [success |-> FALSE,
                            message |-> <<"database does not exist">>,
                            answer |-> DbMissingAnswer],
                rs |-> rs, cache |-> vector_store.cache, calls |-> << >>]
        ELSE IF p.raised
          THEN [result |-> [success |-> FALSE,
                            message |-> <<"query failed: ">> \o p.exc,
                            answer |-> <<"error while querying: ">> \o p.exc],
                rs |-> p.rs, cache |-> vector_store.cache, calls |-> p.calls]
        ELSE [result |-> _generate_relevance_plot(p.value.retrieved_documents,
                                                  n_results, env.plot_ok)
                           @@ [success |-> TRUE] @@ p.value,
              rs |-> p.rs, cache |-> vector_store.cache, calls |-> p.calls]
  IN  Result(get_database(database_name), run_pipeline(rs, query, n_results, history, env))

\* ------------------------------------------------ query_database_stream
\* The request in a slot: the locals of a streaming request, or the record of
\* a blocking call (which runs from "idle" to "finished" in one step and leaves
\* its return value in result).  pc: "idle" (no request), "start" (generator
\* created, not yet run), "llm" (suspended at the documents event),
\* "lines" (inside the for loop of line 245), "append" (chat_stream.generate
\* has sent the done message and not yet updated the history), "finished".
\* events: the events query_database_stream has yielded; sse: the messages
\* chat_stream.generate has yielded; lines: backend lines consumed; flagged:
\* a line whose done field is true has been consumed; stale: the history of
\* the request's collection was reset or deleted while the request was in
\* flight (a record kept for the properties, the code has no such field).
IdleRequest ==
  [kind |-> "none", pc |-> "idle", database_name |-> "", query |-> << >>,
   n_results |-> 0, history |-> << >>, context |-> << >>,
   full_content |-> << >>, thinking_content |-> << >>, json_imported |-> FALSE,
   events |-> << >>, sse |-> << >>, lines |-> 0, flagged |-> FALSE, calls |-> << >>,
   result |-> << >>, stale |-> FALSE]

NewRequest(kind, database_name, query, n_results, history) ==
  [IdleRequest EXCEPT !.kind = kind, !.pc = "start", !.database_name = database_name,
                      !.query = query, !.n_results = n_results, !.history = history]

\* api.py line 332-333: one server-sent message per event
Sse(chunk) == <<"data: ", chunk, "\n\n">>
RECURSIVE SseAll(_)
SseAll(chunks) == IF chunks = << >> THEN << >> ELSE <<Sse(Head(chunks))>> \o SseAll(Tail(chunks))

\* a variant that puts the new events in front of the earlier ones
Emit_in_front(r, out, pc, fields) ==
  LET isdone == \E i \in 1..Len(out) : out[i].type = "done"
      forwarded == req[r].kind = "chat_stream"
  IN  [fields EXCEPT !.events = out \o @,
                     !.sse = IF forwarded THEN SseAll(out) \o @ ELSE @,
                     !.pc = IF forwarded /\ isdone THEN "append" ELSE pc]

\* the events `out` are yielded by the generator of slot r, which goes to pc;
\* chat_stream.generate forwards each as a message and, on done, stops before
\* the history update (the update follows the yield of the done message)
Emit(r, out, pc, fields) ==
  LET isdone == \E i \in 1..Len(out) : out[i].type = "done"
      forwarded == req[r].kind = "chat_stream"
  IN  [fields EXCEPT !.events = @ \o out,
                     !.sse = IF forwarded THEN @ \o SseAll(out) ELSE @,
                     !.pc = IF forwarded /\ isdone THEN "append" ELSE pc]

\* lines 208-232: up to the documents event
StreamStart(r, env) ==
  /\ req[r].pc = "start"
  /\ \E q \in {req[r]} :
     \E vector_store \in {get_database(q.database_name)} :
     \E p \in {Retrieval(RerankerState, q.query, q.n_results, env)} :
     LET documents == _generate_relevance_plot(p.final_docs, q.n_results, env.plot_ok)
                        @@ [type |-> "documents",
                            rewritten_query |-> p.rewritten_query,
                            documents |-> p.final_docs,
                            initial_documents |-> p.initial_docs,
                            context |-> p.context]
     IN  /\ _vector_stores' = vector_store.cache
         /\ IF ~vector_store.found
              THEN /\ req' = [req EXCEPT ![r] = Emit(r, <<ErrorEvent(DbMissingAnswer)>>, "finished", q)]
                   /\ UNCHANGED reranker
            ELSE IF p.raised
              THEN /\ req' = [req EXCEPT ![r] =
                        Emit(r, <<ErrorEvent(<<"query failed: ">> \o p.exc)>>, "finished",
                             [q EXCEPT !.calls = p.calls])]
                   /\ UNCHANGED reranker
            ELSE /\ req' = [req EXCEPT ![r] =
                        Emit(r, <<documents>>, "llm",
                             [q EXCEPT !.calls = p.calls, !.context = p.context])]
                 /\ _reranker' = p.rs.reranker
                 /\ _reranker_available' = p.rs.available
                 /\ _last_reranker_error' = p.rs.last_error
  /\ UNCHANGED <<config, collections, chat_histories, started>>

\* lines 234-240 and 305-314: the streaming call of the backend
StreamCallLlm(r, reply) ==
  /\ req[r].pc = "llm"
  /\ LET q == req[r]
         built == WithPrompt(q.history, UserTurn(build_prompt(q.query, q.context)))
         response == _call_llm(reply, TRUE)
         called == [q EXCEPT !.calls = Append(@, GenerationCall(built, TRUE, reply))]
     IN  req' = [req EXCEPT ![r] =
           IF response.raised
             THEN Emit(r, <<ErrorEvent(<<"query failed: ">> \o response.exc)>>, "finished", called)
           ELSE IF StatusOk(response.value.status)
             THEN [called EXCEPT !.pc = "lines"]
           ELSE Emit(r, <<ErrorEvent(<<"generate answer failed: ",
                                       ToString(response.value.status)>>)>>, "finished", called)]
  /\ UNCHANGED <<config, reranker, database, chat_histories, started>>

\* lines 245-304: one line of response.iter_lines()
StreamLine(r, line) ==
  /\ req[r].pc = "lines"
  /\ LET q == req[r]
         res == ProcessLine([full_content |-> q.full_content,
                             thinking_content |-> q.thinking_content,
                             json_imported |-> q.json_imported], line)
         read == [q EXCEPT !.lines = @ + 1,
                           !.flagged = @ \/ (line.raw = "dict" /\ line.done),
                           !.full_content = res.full_content,
                           !.thinking_content = res.thinking_content,
                           !.json_imported = res.json_imported]
     IN  req' = [req EXCEPT ![r] =
           IF res.ctl = "raise"
             THEN Emit(r, <<ErrorEvent(<<"query failed: ", "UnboundLocalError">>)>>, "finished", read)
           ELSE Emit(r, res.events, IF res.ctl = "break" THEN "finished" ELSE "lines", read)]
  /\ UNCHANGED <<config, reranker, database, chat_histories, started>>

\* line 245: response.iter_lines() is exhausted
StreamEnd(r) ==
  /\ req[r].pc = "lines"
  /\ req' = [req EXCEPT ![r].pc = "finished"]
  /\ UNCHANGED <<config, reranker, database, chat_histories, started>>

\* the backend connection breaks while response.iter_lines() is read: the
\* exception leaves the loop and reaches line 310
StreamBroken(r) ==
  /\ req[r].pc = "lines"
  /\ req' = [req EXCEPT ![r] =
       Emit(r, <<ErrorEvent(<<"query failed: ", "ConnectionError">>)>>, "finished", req[r])]
  /\ UNCHANGED <<config, reranker, database, chat_histories, started>>

\* a caller creates the generator: query_database_stream(...) called directly
Free(r) == req[r].pc = "idle"

QueryDatabaseStream(r, database_name, query, n_results, history) ==
  /\ Free(r)
  /\ req' = [req EXCEPT ![r] =
       NewRequest("query_database_stream", database_name, query, n_results, history)]
  /\ UNCHANGED <<config, reranker, database, chat_histories, started>>

\* the record of a blocking call in slot r
Blocking(kind, database_name, query, n_results, history, out) ==
  [NewRequest(kind, database_name, query, n_results, history)
     EXCEPT !.pc = "finished", !.result = out.result, !.calls = out.calls]

\* api.query_database (POST /api/query): the history comes from the client
QueryDatabase(r, database_name, query, n_results, history, env) ==
  /\ Free(r)
  /\ \E out \in {query_database(RerankerState, database_name, query, n_results, history, env)} :
         /\ req' = [req EXCEPT ![r] =
               Blocking("query_database", database_name, query, n_results, history, out)]
         /\ _vector_stores' = out.cache
         /\ _reranker' = out.rs.reranker
         /\ _reranker_available' = out.rs.available
         /\ _last_reranker_error' = out.rs.last_error
  /\ UNCHANGED <<config, collections, chat_histories, started>>

\* _calc_retrieve_count called on its own
CalcRetrieveCount(r, requested) ==
  /\ Free(r)
  /\ req' = [req EXCEPT ![r] =
       [IdleRequest EXCEPT !.kind = "_calc_retrieve_count", !.pc = "finished",
                           !.n_results = requested,
                           !.result = [total |-> _calc_retrieve_count(requested)]]]
  /\ UNCHANGED <<config, reranker, database, chat_histories, started>>

\* get_document_relevance_scores, build_context and rewrite_query called on
\* their own
GetDocumentRelevanceScores(r, documents, top_k) ==
  /\ Free(r)
  /\ req' = [req EXCEPT ![r] =
       [IdleRequest EXCEPT !.kind = "get_document_relevance_scores", !.pc = "finished",
                           !.n_results = top_k,
                           !.result = [documents |-> documents,
                                       relevance_scores |->
                                         get_document_relevance_scores(documents, top_k)]]]
  /\ UNCHANGED <<config, reranker, database, chat_histories, started>>

BuildContext(r, documents) ==
  /\ Free(r)
  /\ req' = [req EXCEPT ![r] =
       [IdleRequest EXCEPT !.kind = "build_context", !.pc = "finished",
                           !.result = [documents |-> documents,
                                       context |-> build_context(documents)]]]
  /\ UNCHANGED <<config, reranker, database, chat_histories, started>>

RewriteQuery(r, query, reply) ==
  /\ Free(r)
  /\ \E out \in {rewrite_query(query, reply)} :
       req' = [req EXCEPT ![r] =
         [IdleRequest EXCEPT !.kind = "rewrite_query", !.pc = "finished", !.query = query,
                             !.calls = out.calls,
                             !.result = [rewritten_query |-> out.ret]]]
  /\ UNCHANGED <<config, reranker, database, chat_histories, started>>

\* ------------------------------------------------------------------- api.py
MaxHistory == 40

\* a variant that keeps the oldest 40 entries
AppendTurn_keep_oldest(history, query, answer) ==
  LET appended == history \o <<UserTurn(query), AssistantTurn(answer)>>
  IN  IF Len(appended) > MaxHistory THEN SliceTo(appended, MaxHistory) ELSE appended

\* a variant that cuts one entry short of the limit
AppendTurn_odd_cut(history, query, answer) ==
  LET appended == history \o <<UserTurn(query), AssistantTurn(answer)>>
  IN  IF Len(appended) > MaxHistory THEN SliceLast(appended, MaxHistory - 1) ELSE appended

\* api.py lines 270-274 and 339-343: append the turn, keep the last 40 entries
AppendTurn(history, query, answer) ==
  LET appended == history \o <<UserTurn(query), AssistantTurn(answer)>>
  IN  IF Len(appended) > MaxHistory THEN SliceLast(appended, MaxHistory) ELSE appended

\* a variant that starts every history afresh when a name is initialised
WithHistory_all_fresh(name) ==
  IF name \in DOMAIN chat_histories THEN chat_histories
  ELSE [k \in DOMAIN chat_histories \cup {name} |-> << >>]

\* lines 253-254, 284-285, 314-315: chat_histories with the name initialised
WithHistory(name) ==
  IF name \in DOMAIN chat_histories THEN chat_histories
  ELSE [k \in DOMAIN chat_histories \cup {name} |->
          IF k = name THEN << >> ELSE chat_histories[k]]

\* api.chat (POST /api/chat): no await in the handler, it runs in one step
Chat(r, database_name, query, n_results, env) ==
  /\ Free(r)
  /\ \E histories \in {WithHistory(database_name)} :
     \E current_history \in {histories[database_name]} :
     \E out \in {query_database(RerankerState, database_name, query, n_results,
                                current_history, env)} :
     LET answered == out.result.success /\ out.result.answer # << >>
     IN  /\ req' = [req EXCEPT ![r] =
               Blocking("chat", database_name, query, n_results, current_history, out)]
         /\ chat_histories' =
              IF answered
                THEN [histories EXCEPT ![database_name] = AppendTurn(@, query, out.result.answer)]
              ELSE histories
         /\ _vector_stores' = out.cache
         /\ _reranker' = out.rs.reranker
         /\ _reranker_available' = out.rs.available
         /\ _last_reranker_error' = out.rs.last_error
  /\ started' = started + 1
  /\ UNCHANGED <<config, collections>>

\* api.chat_stream (POST /api/chat/stream), lines 311-319 and 351: the handler
\* copies the history and returns the response that will iterate generate()
ChatStream(r, database_name, query, n_results) ==
  /\ Free(r)
  /\ chat_histories' = WithHistory(database_name)
  /\ req' = [req EXCEPT ![r] =
       NewRequest("chat_stream", database_name, query, n_results,
                  WithHistory(database_name)[database_name])]
  /\ started' = started + 1
  /\ UNCHANGED <<config, reranker, database>>

\* chat_stream.generate resumed after the done message, lines 336-349
GenerateAppend(r) ==
  /\ req[r].pc = "append"
  /\ LET q == req[r]
         done == q.events[Len(q.events)]
     IN  IF q.database_name \in DOMAIN chat_histories
           THEN /\ chat_histories' = [chat_histories EXCEPT ![q.database_name] =
                                        AppendTurn(@, q.query, done.full_content)]
                /\ req' = [req EXCEPT ![r].pc = "finished"]
         ELSE \* KeyError, caught at line 344
              /\ req' = [req EXCEPT ![r].pc = "finished",
                                    ![r].sse = Append(@, Sse(ErrorEvent(<<"stream failed: ", "KeyError">>)))]
              /\ UNCHANGED chat_histories
  /\ UNCHANGED <<config, reranker, database, started>>

\* api.get_chat_history
GetChatHistory(database_name) ==
  /\ database_name \notin DOMAIN chat_histories
  /\ chat_histories' = WithHistory(database_name)
  /\ UNCHANGED <<config, reranker, database, req, started>>

\* the requests with the chat streams in flight on `name` marked stale
MarkStale(name) ==
  [r \in Slots |->
     IF /\ req[r].kind = "chat_stream" /\ req[r].database_name = name
        /\ req[r].pc \notin {"idle", "finished"}
       THEN [req[r] EXCEPT !.stale = TRUE]
     ELSE req[r]]

\* api.clear_chat_history
ClearChatHistory(database_name) ==
  /\ database_name \in DOMAIN chat_histories
  /\ chat_histories' = [chat_histories EXCEPT ![database_name] = << >>]
  /\ req' = MarkStale(database_name)
  /\ UNCHANGED <<config, reranker, database, started>>

\* api.create_database -> DatabaseManager.create_database
CreateDatabase(name) ==
  /\ name \notin collections
  /\ collections' = collections \cup {name}
  /\ UNCHANGED <<config, reranker, _vector_stores, chat_histories, req, started>>

\* api.delete_database -> DatabaseManager.delete_database: the cached store is
\* dropped first; the history goes only when the collection was deleted
DeleteDatabase(name) ==
  /\ name \in collections \/ name \in _vector_stores
  /\ _vector_stores' = _vector_stores \ {name}
  /\ IF name \in collections
       THEN /\ collections' = collections \ {name}
            /\ chat_histories' = [k \in DOMAIN chat_histories \ {name} |-> chat_histories[k]]
            /\ req' = MarkStale(name)
     ELSE UNCHANGED <<collections, chat_histories, req>>
  /\ UNCHANGED <<config, reranker, started>>

\* the response of a finished request has been delivered: its slot is free
Release(r) ==
  /\ req[r].pc = "finished"
  /\ req' = [req EXCEPT ![r] = IdleRequest]
  /\ UNCHANGED <<config, reranker, database, chat_histories, started>>

\* ------------------------------------------------------------------ inputs
Names == {"docs", "ghost"}
Query1 == <<"q1">>

\* the collection, ranked for a query: candidate i at distance (i + 1) \div 2
\* tenths, so that candidates 1 and 2 tie
Doc(i) == [content |-> "d" \o ToString(i), distance |-> (i + 1) \div 2]
Contents == {Doc(i).content : i \in 1..MaxDocs}
Ranked(m) == [i \in 1..m |-> Doc(i)]
Search(raises, ranked) == [raises |-> raises, ranked |-> ranked]
\* a collection that holds the same chunk twice
Repeated == <<Doc(1), Doc(1), Doc(2)>>
Searches ==
  {Search(TRUE, << >>), Search(FALSE, Repeated)}
    \cup {Search(FALSE, Ranked(m)) : m \in 0..MaxDocs}

\* CrossEncoder.predict: scores in tenths
Predict(raises, score_of) == [raises |-> raises, score_of |-> score_of]
ScoreFunctions == [Contents -> {3, 7}]
Predicts == {Predict(TRUE, [c \in Contents |-> 0])}
              \cup {Predict(FALSE, f) : f \in ScoreFunctions}

NetworkError == Reply("network_error", 0, << >>)
HttpError(status) == Reply("http_error", status, << >>)
Answer(content) == Reply("ok", 200, content)
Streaming == Reply("stream", 200, << >>)
FailedReplies == {NetworkError, HttpError(500), HttpError(404), Reply("unparsable", 200, << >>)}
OddReplies == {Reply("nondict", 200, << >>), Reply("null_message", 200, << >>),
               Reply("no_message", 200, << >>), Reply("no_content", 200, << >>)}
BlockingReplies == FailedReplies \cup OddReplies \cup {Answer(<<"a">>), Answer(<< >>)}
StreamReplies == {NetworkError, HttpError(500), HttpError(404), Streaming}

Env(rewrite, embed_ok, search, load_ok, predict, llm, plot_ok) ==
  [rewrite |-> rewrite, embed_ok |-> embed_ok, search |-> search, load_ok |-> load_ok,
   predict |-> predict, llm |-> llm, plot_ok |-> plot_ok]

\* every collaborator of the retrieval stages varies
RetrievalEnvs ==
  {Env(rw, e, s, l, p, Answer(<<"a">>), TRUE) :
     rw \in {Answer(<<"x">>), HttpError(500)}, e \in BOOLEAN, s \in Searches,
     l \in BOOLEAN, p \in Predicts}

\* every reply of the backend to the generation call
GenerationEnvs ==
  {Env(Answer(<<"x">>), TRUE, Search(FALSE, Ranked(m)), l,
       Predict(FALSE, [c \in Contents |-> 7]), a, ok) :
     m \in {0, 2}, l \in BOOLEAN, a \in BlockingReplies, ok \in BOOLEAN}

PipelineEnvs == RetrievalEnvs \cup GenerationEnvs

\* a working pipeline, a failing embedding, an unloadable reranker
PlainEnvs ==
  {Env(Answer(<<"x">>), e, Search(FALSE, Ranked(m)), l,
       Predict(FALSE, [c \in Contents |-> 7]), a, ok) :
     e \in BOOLEAN, m \in {0, 2}, l \in BOOLEAN, a \in {Answer(<<"a">>), Answer(<< >>), HttpError(500)},
     ok \in BOOLEAN}

\* lines of a streamed response
MessageLines(thinkings, contents) ==
  {Line("dict", "dict", t, Absent, Absent, c, d) :
     t \in thinkings, c \in contents, d \in BOOLEAN}
OtherLines ==
  {Bare(raw) : raw \in {"empty", "blank", "undecodable", "malformed", "nondict"}}
    \cup {Line("dict", m, Absent, Absent, Absent, Absent, d) : m \in {"absent", "bad"}, d \in BOOLEAN}
StreamLines ==
  OtherLines \cup MessageLines({Absent, Str(<<"t">>)},
                               {Absent, Str(<< >>), Str(<<"a">>), Str(<<"b">>), NonStr})

\* histories a direct caller passes
OneTurn == <<UserTurn(<<"q0">>), AssistantTurn(<<"a0">>)>>

\* -------------------------------------------------------------------- Init
\* api.py lines 30-35: RAGManager with its defaults
InitDefaults ==
  /\ enable_query_rewrite = TRUE
  /\ enable_rerank = TRUE
  /\ retrieval_multiplier = ClampMultiplier(18)
  /\ max_retrieve_results = 15

InitRest ==
  /\ _reranker = "None"
  /\ _reranker_available = enable_rerank
  /\ _last_reranker_error = "None"
  /\ collections = {"docs"}
  /\ _vector_stores = {}
  /\ chat_histories = [k \in {} |-> << >>]
  /\ req = [r \in Slots |-> IdleRequest]
  /\ started = 0

\* ---------------------------------------------- _calc_retrieve_count alone
Multipliers == {0, 5, 10, 11, 15, 18, 25, 30}
Caps == 1..15

InitCalc ==
  /\ enable_query_rewrite = TRUE
  /\ enable_rerank = TRUE
  /\ retrieval_multiplier \in {ClampMultiplier(m) : m \in Multipliers}
  /\ max_retrieve_results \in Caps
  /\ InitRest

NextCalc ==
  \/ \E n \in 1..(15 + MaxRequested) : CalcRetrieveCount(1, n)
  \/ Release(1)

SpecCalc == InitCalc /\ [][NextCalc]_vars

\* ------------------------------- the pipeline, every collaborator varying
InitPipeline ==
  /\ enable_query_rewrite \in BOOLEAN
  /\ enable_rerank \in BOOLEAN
  /\ retrieval_multiplier = ClampMultiplier(18)
  /\ max_retrieve_results \in {2, 15}
  /\ InitRest

NextPipeline ==
  \/ \E db \in Names, n \in 1..MaxRequested, h \in {<< >>, OneTurn} :
       \E env \in (IF db \in collections THEN PipelineEnvs ELSE PlainEnvs) :
         QueryDatabase(1, db, Query1, n, h, env)
  \/ \E db \in Names, n \in 1..MaxRequested : QueryDatabaseStream(1, db, Query1, n, << >>)
  \/ \E env \in RetrievalEnvs : StreamStart(1, env)
  \/ \E reply \in StreamReplies : StreamCallLlm(1, reply)
  \/ \E line \in {Line("dict", "absent", Absent, Absent, Absent, Absent, TRUE)} :
       req[1].lines < MaxLines /\ StreamLine(1, line)
  \/ StreamEnd(1)
  \/ StreamBroken(1)
  \/ Release(1)

SpecPipeline == InitPipeline /\ [][NextPipeline]_vars

\* --------------------------------- one stream, every kind of line varying
InitStream == InitDefaults /\ InitRest

NextStream ==
  \/ \E db \in Names, h \in {<< >>, OneTurn} : QueryDatabaseStream(1, db, Query1, 2, h)
  \/ \E env \in PlainEnvs : StreamStart(1, env)
  \/ \E reply \in StreamReplies : StreamCallLlm(1, reply)
  \/ \E line \in StreamLines : req[1].lines < MaxLines /\ StreamLine(1, line)
  \/ StreamEnd(1)
  \/ StreamBroken(1)
  \/ Release(1)

SpecStream == InitStream /\ [][NextStream]_vars

\* ---------------------------------------------- the API, requests in flight
\* the client numbers its questions q0, q1, q2, q0, ...
QueryNo == <<"q" \o ToString(started % 3)>>

ApiEnvs ==
  {Env(Answer(<<"x">>), e, Search(FALSE, Ranked(2)), TRUE,
       Predict(FALSE, [c \in Contents |-> 7]), a, TRUE) :
     e \in BOOLEAN, a \in {Answer(<<"a">>), Answer(<< >>), HttpError(500)}}

\* lines that end the stream: with an answer, and with none
DoneLines ==
  {Line("dict", "dict", Absent, Absent, Absent, c, TRUE) : c \in {Absent, Str(<<"a">>)}}

InitApi == InitDefaults /\ InitRest

\* the steps of the streams in flight
StreamSteps(envs, lines) ==
  \/ \E r \in Slots, env \in envs : StreamStart(r, env)
  \/ \E r \in Slots, reply \in {Streaming, HttpError(500)} : StreamCallLlm(r, reply)
  \/ \E r \in Slots, line \in lines : req[r].lines < MaxLines /\ StreamLine(r, line)
  \/ \E r \in Slots : StreamEnd(r)
  \/ \E r \in Slots : StreamBroken(r)
  \/ \E r \in Slots : GenerateAppend(r)
  \/ \E r \in Slots : Release(r)

NextApi ==
  \/ \E r \in Slots, db \in Names, env \in ApiEnvs :
       started < MaxStarted /\ Chat(r, db, QueryNo, 2, env)
  \/ \E r \in Slots, db \in Names :
       started < MaxStarted /\ ChatStream(r, db, QueryNo, 2)
  \/ StreamSteps(ApiEnvs, DoneLines)
  \/ \E db \in Names : GetChatHistory(db)
  \/ \E db \in Names : ClearChatHistory(db)
  \/ CreateDatabase("docs")
  \/ DeleteDatabase("docs")

SpecApi == InitApi /\ [][NextApi]_vars

\* ------------------------------------- the API, a history that fills up
\* the first Warmup requests are blocking chats that succeed, one after the
\* other; the requests after them are free
Warmup == 19
MaxTurns == 22

WarmEnv ==
  Env(Answer(<<"x">>), TRUE, Search(FALSE, Ranked(2)), TRUE,
      Predict(FALSE, [c \in Contents |-> 7]), Answer(<<"a">>), TRUE)

\* an environment whose generation fails
FailEnv ==
  Env(Answer(<<"x">>), TRUE, Search(FALSE, Ranked(2)), TRUE,
      Predict(FALSE, [c \in Contents |-> 7]), HttpError(500), TRUE)

NextHistory ==
  \/ started < Warmup /\ Chat(1, "docs", QueryNo, 2, WarmEnv)
  \/ \E r \in Slots, env \in ApiEnvs :
       started >= Warmup /\ started < MaxTurns /\ Chat(r, "docs", QueryNo, 2, env)
  \/ \E r \in Slots :
       started >= Warmup /\ started < MaxTurns /\ ChatStream(r, "docs", QueryNo, 2)
  \/ StreamSteps(ApiEnvs, DoneLines)

SpecHistory == InitApi /\ [][NextHistory]_vars

\* ------------------- the API, a history that fills up and can be reset
\* the warm-up is one chat longer, so that the history is full when it ends;
\* after it the history can also be cleared and the collection deleted and
\* created again, between any two steps of the requests
NextTurns ==
  \/ started <= Warmup /\ Chat(1, "docs", QueryNo, 2, WarmEnv)
  \/ \E env \in {WarmEnv, FailEnv} :
       started > Warmup /\ started < MaxTurns /\ Chat(1, "docs", QueryNo, 2, env)
  \/ \E r \in Slots :
       started > Warmup /\ started < MaxTurns /\ ChatStream(r, "docs", QueryNo, 2)
  \/ StreamSteps({WarmEnv}, DoneLines)
  \/ started > Warmup /\ ClearChatHistory("docs")
  \/ started > Warmup /\ DeleteDatabase("docs")
  \/ started > Warmup /\ CreateDatabase("docs")

SpecTurns == InitApi /\ [][NextTurns]_vars

\* ------------------------------ the API, two names with their histories
\* both collections can exist, so that both names can gather turns; the
\* chats come one at a time, with one stream in flight beside them
NextNames ==
  \/ CreateDatabase("ghost")
  \/ \E db \in Names :
       started < MaxStarted /\ Chat(1, db, QueryNo, 2, WarmEnv)
  \/ \E db \in Names :
       started < MaxStarted /\ ChatStream(2, db, QueryNo, 2)
  \/ StreamSteps({WarmEnv}, DoneLines)
  \/ \E db \in Names : GetChatHistory(db)
  \/ \E db \in Names : ClearChatHistory(db)

SpecNames == InitApi /\ [][NextNames]_vars

\* --------------------------------------- the stages called on their own
\* documents as a stage can be given them: with and without a rerank score, a
\* distance, a content; StageEntries adds an entry that is no dict
StageDocs ==
  {[content |-> "d1", distance |-> 1], [content |-> "d2", distance |-> 3],
   [content |-> "d1", distance |-> 1, rerank_score |-> 7],
   [content |-> "d3", rerank_score |-> 3], [distance |-> 3], [content |-> "d2"]}

StageEntries == StageDocs \cup {[nondict |-> TRUE]}

SeqsUpTo(S, n) == UNION {[1..m -> S] : m \in 0..n}

\* replies to the rewrite call: several lines, blank lines, spaces around
RewriteReplies ==
  FailedReplies \cup OddReplies
    \cup {Answer(t) : t \in {<< >>, <<" ", "\n">>, <<"x">>, <<" ", "x", " ", "\n", "y">>,
                             <<"\n", " ", "x", "y", "\n", "\n", "z">>, <<"q1">>,
                             <<"x", " ", "\n", " ", "\n">>}}

InitStages ==
  /\ enable_query_rewrite \in BOOLEAN
  /\ enable_rerank = TRUE
  /\ retrieval_multiplier = ClampMultiplier(18)
  /\ max_retrieve_results = 15
  /\ InitRest

NextStages ==
  \/ \E documents \in SeqsUpTo(StageEntries, MaxDocs), top_k \in 0..(MaxDocs + 1) :
       GetDocumentRelevanceScores(1, documents, top_k)
  \/ \E documents \in SeqsUpTo(StageDocs, MaxDocs) : BuildContext(1, documents)
  \/ \E query \in {Query1, <<" ", "q2", " ">>}, reply \in RewriteReplies :
       RewriteQuery(1, query, reply)
  \/ Release(1)

SpecStages == InitStages /\ [][NextStages]_vars

\* ------------------------------ one stream, the reasoning fields varying
ReasoningLines ==
  {Line("dict", "dict", t, g, c, a, d) :
     t \in {Absent, Str(<< >>), Str(<<"t">>)}, g \in {Absent, Str(<< >>), Str(<<"g">>)},
     c \in {Absent, Str(<< >>), Str(<<"c">>), Null, NonStr},
     a \in {Absent, Str(<<"a">>)}, d \in BOOLEAN}

NextThinking ==
  \/ QueryDatabaseStream(1, "docs", Query1, 2, << >>)
  \/ StreamStart(1, WarmEnv)
  \/ StreamCallLlm(1, Streaming)
  \/ \E line \in ReasoningLines : req[1].lines < MaxLines /\ StreamLine(1, line)
  \/ StreamEnd(1)
  \/ Release(1)

SpecThinking == InitStream /\ [][NextThinking]_vars

\* ------------------------ the reranker, shared by the requests in flight
\* every slot serves one request and is not released, so the calls of all
\* the requests of the instance stay on record
RerankEnvs ==
  {Env(Answer(<<"x">>), TRUE, Search(FALSE, Ranked(m)), l, p, Answer(<<"a">>), TRUE) :
     m \in {0, MaxDocs}, l \in BOOLEAN,
     p \in {Predict(TRUE, [c \in Contents |-> 0]),
            Predict(FALSE, [c \in Contents |-> 7]),
            Predict(FALSE, [c \in Contents |-> IF c = Doc(1).content THEN 3 ELSE 7])}}

InitRerank ==
  /\ enable_query_rewrite = TRUE
  /\ enable_rerank \in BOOLEAN
  /\ retrieval_multiplier = ClampMultiplier(18)
  /\ max_retrieve_results = 15
  /\ InitRest

NextRerank ==
  \/ \E r \in Slots, n \in 1..2 : QueryDatabaseStream(r, "docs", Query1, n, << >>)
  \/ \E r \in Slots, env \in RerankEnvs : StreamStart(r, env)
  \/ \E r \in Slots : StreamCallLlm(r, HttpError(500))
  \/ \E r \in Slots, n \in 1..2, env \in RerankEnvs :
       QueryDatabase(r, "docs", Query1, n, << >>, env)

SpecRerank == InitRerank /\ [][NextRerank]_vars

\* ------------------------------------------------------------------ claims
Finished(r, kind) == req[r].kind = kind /\ req[r].pc = "finished"

\* the cap of _calc_retrieve_count did not bind: max(n, ceil(n * multiplier))
\* is at most max_retrieve_results
CapDidNotBind(n) ==
  n <= max_retrieve_results /\ n * retrieval_multiplier <= 10 * max_retrieve_results

\* C3 as stated: for every n >= 1 the count k returned by _calc_retrieve_count
\* satisfies n <= k <= max_retrieve_results, and k >= ceil(n * multiplier)
\* whenever the cap did not bind.  (k >= ceil(x) is k >= x for an integer k.)
C3_CountAtLeastRequested ==
  \A r \in Slots : Finished(r, "_calc_retrieve_count") =>
    LET n == req[r].n_results
        k == req[r].result.total
    IN  /\ n <= k
        /\ k <= max_retrieve_results
        /\ CapDidNotBind(n) => 10 * k >= n * retrieval_multiplier

\* C3 amended: min(n, max_retrieve_results) <= k <= max_retrieve_results, so
\* n <= k exactly when n <= max_retrieve_results, and k >= ceil(n * multiplier)
\* whenever the cap did not bind.
C3_CountWithinCap ==
  \A r \in Slots : Finished(r, "_calc_retrieve_count") =>
    LET n == req[r].n_results
        k == req[r].result.total
    IN  /\ Min(n, max_retrieve_results) <= k
        /\ k <= max_retrieve_results
        /\ (n <= k <=> n <= max_retrieve_results)
        /\ CapDidNotBind(n) => 10 * k >= n * retrieval_multiplier

\* 5 results at multiplier 1.8 and cap 15: 9 are retrieved
C3_Witness ==
  \E r \in Slots :
    /\ Finished(r, "_calc_retrieve_count")
    /\ retrieval_multiplier = 18 /\ max_retrieve_results = 15
    /\ req[r].n_results = 5 /\ req[r].result.total = 9

\* the reranker scored the candidates in this request
Scored(calls) == \E i \in 1..Len(calls) : calls[i].fn = "predict" /\ ~calls[i].raised
LoadFailed(calls) == \E i \in 1..Len(calls) : calls[i].fn = "CrossEncoder" /\ calls[i].raised
ScoringRaised(calls) == \E i \in 1..Len(calls) : calls[i].fn = "predict" /\ calls[i].raised

RerankBounded(initial, final, top_k, calls) ==
  /\ Len(final) <= top_k
  /\ ~Scored(calls) => final = SubSeq(initial, 1, Min(top_k, Len(initial)))

\* C7: rerank_documents never returns more than top_k documents, and on every
\* degrade path (disabled, unavailable, load failing, scoring raising) its
\* output is the first top_k candidates of the input in their original order.
\* top_k is a count (top_k >= 0); the candidates are the retrieved ones.
C7_RerankTruncates ==
  \A r \in Slots :
    /\ (Finished(r, "query_database") /\ req[r].result.success) =>
         RerankBounded(req[r].result.initial_retrieved_documents,
                       req[r].result.retrieved_documents, req[r].n_results, req[r].calls)
    /\ (req[r].kind = "query_database_stream" /\ req[r].events # << >>
          /\ req[r].events[1].type = "documents") =>
         RerankBounded(req[r].events[1].initial_documents,
                       req[r].events[1].documents, req[r].n_results, req[r].calls)

\* scoring raised with more candidates than top_k: the first top_k are returned
C7_Witness ==
  \E r \in Slots :
    /\ Finished(r, "query_database") /\ req[r].result.success
    /\ ScoringRaised(req[r].calls)
    /\ Len(req[r].result.initial_retrieved_documents) > req[r].n_results
    /\ req[r].result.retrieved_documents =
         SubSeq(req[r].result.initial_retrieved_documents, 1, req[r].n_results)

\* C8: a query against a collection that does not exist returns a failure
\* result with a non-empty message and the explanatory answer (streaming: a
\* single error event and nothing else), and calls neither the backend, the
\* embedding nor the vector search.
C8_MissingCollectionFails ==
  \A r \in Slots : req[r].database_name \notin collections =>
    /\ Finished(r, "query_database") =>
         /\ req[r].result.success = FALSE
         /\ req[r].result.message # << >>
         /\ req[r].result.answer = DbMissingAnswer
         /\ req[r].calls = << >>
    /\ (req[r].kind = "query_database_stream" /\ req[r].pc # "start") =>
         /\ req[r].pc = "finished"
         /\ req[r].events = <<ErrorEvent(DbMissingAnswer)>>
         /\ req[r].calls = << >>

C8_Witness ==
  \E r \in Slots :
    /\ Finished(r, "query_database_stream")
    /\ req[r].database_name = "ghost" /\ "ghost" \notin collections
    /\ Len(req[r].events) = 1 /\ req[r].events[1].type = "error"

PipelineFields ==
  {"query", "rewritten_query", "retrieved_documents", "initial_retrieved_documents",
   "context", "answer", "relevance_scores"}

\* the request reached the generation call
Generated(q) == q.calls # << >> /\ q.calls[Len(q.calls)].fn = "_call_llm"

\* C10: blocking generate_answer never raises: on a status other than 200, a
\* network failure or an unparsable response the answer is an error text, which
\* contains the status code for a non-200 status, and run_pipeline still
\* returns a result with all seven fields.
C10_GenerationErrorIsAnswer ==
  \A r \in Slots : (Finished(r, "query_database") /\ Generated(req[r])) =>
    LET reply == req[r].calls[Len(req[r].calls)].reply
        result == req[r].result
    IN  /\ result.success
        /\ PipelineFields \subseteq DOMAIN result
        /\ reply.kind \in {"network_error", "http_error", "unparsable"} =>
             /\ result.answer # << >>
             /\ Head(result.answer) = "generate_answer error: "
        /\ reply.kind = "http_error" => ToString(reply.status) \in Range(result.answer)

C10_Witness ==
  \E r \in Slots :
    /\ Finished(r, "query_database") /\ Generated(req[r])
    /\ req[r].calls[Len(req[r].calls)].reply = HttpError(500)
    /\ req[r].result.success
    /\ "500" \in Range(req[r].result.answer)

\* --------------------------------------------------------- event streams
EventsOf(events, types) == {i \in 1..Len(events) : events[i].type \in types}

\* the stream of slot r is over: the generator has returned
Ended(r) == Finished(r, "query_database_stream")

\* C1 as stated: every event stream of query_database_stream contains exactly
\* one terminal event, one done or one error, never both, never neither,
\* never more than one.
C1_ExactlyOneTerminal ==
  \A r \in Slots : Ended(r) => Cardinality(EventsOf(req[r].events, {"done", "error"})) = 1

\* C5 as stated: once a backend line flagged as terminal has been processed,
\* no later backend line is processed and no further event is produced.
C5_NoLineAfterFlagged ==
  [][\A r \in Slots : (req[r].flagged /\ req'[r].pc # "idle") =>
        (req'[r].lines = req[r].lines /\ req'[r].events = req[r].events)]_vars

\* the deltas of the content events among the first i events, concatenated
RECURSIVE Deltas(_, _)
Deltas(events, i) ==
  IF i = 0 THEN << >>
  ELSE Deltas(events, i - 1)
         \o (IF events[i].type = "content" THEN events[i].content ELSE << >>)

\* C6: the full_content of done is the concatenation, in emission order, of
\* the deltas of the content events before it, and the full_content of every
\* content event is the concatenation of the deltas up to and including its own.
C6_FullContentIsConcatenation ==
  \A r \in Slots : \A i \in 1..Len(req[r].events) :
    LET e == req[r].events[i]
    IN  /\ e.type = "content" => e.full_content = Deltas(req[r].events, i)
        /\ e.type = "done" => e.full_content = Deltas(req[r].events, i - 1)

\* a stream that ended with done after the deltas a and b
C6_Witness ==
  \E r \in Slots :
    /\ Ended(r)
    /\ req[r].events[Len(req[r].events)].type = "done"
    /\ req[r].events[Len(req[r].events)].full_content = <<"a", "b">>
    /\ Cardinality(EventsOf(req[r].events, {"content"})) = 2

\* the backend answered the streaming call with a status that is not 200
StreamRefused(q) ==
  \E i \in 1..Len(q.calls) :
    q.calls[i].fn = "_call_llm" /\ q.calls[i].stream /\ q.calls[i].reply.kind = "http_error"

\* C9: when the backend answers the streaming call with a non-200 status the
\* stream ends with a single error event: exactly one error, it is the last
\* event, and there is no content, thinking or done event in the stream.
C9_RefusedStreamEndsInError ==
  \A r \in Slots : StreamRefused(req[r]) =>
    /\ req[r].pc = "finished"
    /\ Cardinality(EventsOf(req[r].events, {"error"})) = 1
    /\ req[r].events[Len(req[r].events)].type = "error"
    /\ EventsOf(req[r].events, {"content", "thinking", "done"}) = {}

C9_Witness ==
  \E r \in Slots :
    /\ StreamRefused(req[r])
    /\ Len(req[r].events) = 2
    /\ req[r].events[1].type = "documents"
    /\ req[r].events[2].type = "error"

\* ------------------------------------------------------ stored histories
\* C2 as stated: chat requests against the same collection name never
\* interleave their copy -> generate -> append cycles: when a request appends
\* its turn, every turn stored by then is in the history it copied and
\* generated from.
C2_CyclesDoNotInterleave ==
  \A r \in Slots :
    (req[r].pc = "append" /\ req[r].database_name \in DOMAIN chat_histories) =>
      Range(chat_histories[req[r].database_name]) \subseteq Range(req[r].history)

\* the history stored for a name (none yet: empty, as lines 253-254 make it)
Stored(name) == IF name \in DOMAIN chat_histories THEN chat_histories[name] ELSE << >>

\* h2 is h with the turn of `query` (a user and an assistant entry) appended
\* and, beyond MaxHistory entries, only the most recent MaxHistory kept in
\* their order
TurnAppended(h, h2, query) ==
  /\ Len(h2) >= 2
  /\ h2[Len(h2) - 1] = UserTurn(query) /\ h2[Len(h2)].role = "assistant"
  /\ LET all == h \o SubSeq(h2, Len(h2) - 1, Len(h2))
         dropped == Max(0, Len(all) - MaxHistory)
     IN  /\ Len(h2) = Len(all) - dropped
         /\ \A i \in 1..Len(h2) : h2[i] = all[dropped + i]

\* this step completes a turn of slot r: a blocking chat that answered, or a
\* stream whose generate() updates the history after its done message
TurnCompleted(r) ==
  \/ /\ req[r].pc = "idle" /\ req'[r].pc = "finished" /\ req'[r].kind = "chat"
     /\ req'[r].result.success /\ req'[r].result.answer # << >>
  \/ /\ req[r].pc = "append" /\ req'[r].pc = "finished"
     /\ req[r].database_name \in DOMAIN chat_histories

\* C4: after any sequence of completed chat turns, blocking or streaming, a
\* stored history has at most 40 entries; every completed turn is appended,
\* and a turn that makes the history longer than 40 drops only the oldest
\* entries: the ones kept are the most recent, in their order.
C4_HistoryKeepsMostRecent ==
  /\ [](\A db \in DOMAIN chat_histories : Len(chat_histories[db]) <= MaxHistory)
  /\ [][\A r \in Slots : TurnCompleted(r) =>
          /\ req'[r].database_name \in DOMAIN chat_histories'
          /\ TurnAppended(Stored(req'[r].database_name),
                          chat_histories'[req'[r].database_name], req'[r].query)]_vars

\* the history is full, and the first question asked (q0) has been dropped
C4_Witness ==
  /\ "docs" \in DOMAIN chat_histories
  /\ Len(chat_histories["docs"]) = MaxHistory
  /\ chat_histories["docs"][1] = UserTurn(<<"q1">>)
  /\ \E r \in Slots : Finished(r, "chat_stream")

\* ------------------------------------------------------- the reranker
\* the calls of the CrossEncoder constructor on record, as <<slot, position>>
Loads ==
  UNION {{<<r, i>> : i \in {j \in 1..Len(req[r].calls) : req[r].calls[j].fn = "CrossEncoder"}} :
           r \in Slots}

\* C11: with several requests in flight on one pipeline instance and the
\* reranker not loaded yet, the first calls of rerank_documents do not overlap:
\* the cross-encoder is constructed at most once per instance, and every
\* scoring call is made on a constructed model.
C11_LoadedAtMostOnce ==
  /\ Cardinality(Loads) <= 1
  /\ \A r \in Slots : \A i \in 1..Len(req[r].calls) :
       req[r].calls[i].fn = "predict" => req[r].calls[i].model = "CrossEncoder"

\* two streams in flight, both reranked with scores, one construction
C11_Witness ==
  \E r1, r2 \in Slots :
    /\ r1 # r2
    /\ \A r \in {r1, r2} :
         req[r].kind = "query_database_stream" /\ req[r].pc = "llm" /\ Scored(req[r].calls)
    /\ Cardinality(Loads) = 1

\* the request of slot r has been through rerank_documents
Reranked(q) ==
  \/ q.kind = "query_database" /\ q.pc = "finished" /\ q.result.success
  \/ q.kind = "query_database_stream" /\ q.pc = "llm"

InitialDocs(q) ==
  IF q.kind = "query_database" THEN q.result.initial_retrieved_documents
  ELSE q.events[1].initial_documents

FinalDocs(q) ==
  IF q.kind = "query_database" THEN q.result.retrieved_documents
  ELSE q.events[1].documents

\* C18: a failed load of the reranker is sticky: after it the availability
\* flag is false and never becomes true again, no later call of
\* rerank_documents constructs or scores, and every later call returns the
\* first top_k candidates unchanged.
C18_LoadFailureIsSticky ==
  /\ [](_last_reranker_error # "None" => ~_reranker_available)
  /\ [](\A r \in Slots : LoadFailed(req[r].calls) => ~_reranker_available)
  /\ [][~_reranker_available => ~_reranker_available']_vars
  /\ [][\A r \in Slots :
          (~_reranker_available /\ ~Reranked(req[r]) /\ Reranked(req'[r])) =>
            /\ \A i \in 1..Len(req'[r].calls) :
                 req'[r].calls[i].fn \notin {"CrossEncoder", "predict"}
            /\ FinalDocs(req'[r]) =
                 SubSeq(InitialDocs(req'[r]), 1,
                        Min(req'[r].n_results, Len(InitialDocs(req'[r]))))]_vars

\* a load failed in one request; a later request with more candidates than
\* top_k got the first top_k without a load or a scoring call
C18_Witness ==
  \E r1, r2 \in Slots :
    /\ r1 # r2
    /\ LoadFailed(req[r1].calls)
    /\ Reranked(req[r2])
    /\ enable_rerank
    /\ \A i \in 1..Len(req[r2].calls) : req[r2].calls[i].fn \notin {"CrossEncoder", "predict"}
    /\ Len(InitialDocs(req[r2])) > req[r2].n_results
    /\ Len(FinalDocs(req[r2])) = req[r2].n_results

\* ------------------------------------------------ history and failed turns
\* the generation call of the request failed: the backend call raised or the
\* reply could not be read
GenerationFailed(q) ==
  /\ Generated(q)
  /\ LET reply == q.calls[Len(q.calls)].reply
     IN  _call_llm(reply, FALSE).raised \/ MessageContent(reply).raised

\* the turn of a blocking chat failed: no collection, a retrieval failure, or
\* a generation failure
TurnFailed(q) == ~q.result.success \/ GenerationFailed(q)

\* the history stored for a name after the step
StoredNext(name) ==
  IF name \in DOMAIN chat_histories' THEN chat_histories'[name] ELSE << >>

\* C12: a stored history gains a user/assistant pair only after a successful
\* turn: a blocking chat that failed (missing collection, retrieval failure,
\* generation failure) leaves the stored history of its collection unchanged,
\* and a streaming chat changes it at no step before the one that follows its
\* done event.
C12_FailedTurnLeavesHistory ==
  [][\A r \in Slots :
       LET name == req'[r].database_name
       IN  /\ (Free(r) /\ req'[r].kind = "chat" /\ TurnFailed(req'[r])) =>
                StoredNext(name) = Stored(name)
           /\ (req[r].kind = "chat_stream" /\ req[r].pc # "append" /\ req'[r] # req[r]) =>
                StoredNext(name) = Stored(name)]_vars

\* C17: after a successful deletion of a collection or a reset of its
\* history, the stored history of that name holds no turn of a request that
\* started before the deletion or reset: such a request adds nothing to it.
C17_NoTurnFromBeforeReset ==
  [][\A r \in Slots :
       (req[r].stale /\ req[r].pc = "append" /\ req'[r].pc = "finished") =>
         StoredNext(req[r].database_name) = Stored(req[r].database_name)]_vars

\* ------------------------------------------------------ single stages
\* C13: get_document_relevance_scores returns at most top_k entries, sorted
\* in non-increasing order of score; two entries of equal score are in the
\* order of their documents in the input (increasing source_index).  Every
\* entry stands for a dict of the input, none for two.
C13_RelevanceSortedStable ==
  \A r \in Slots : Finished(r, "get_document_relevance_scores") =>
    LET documents == req[r].result.documents
        out == req[r].result.relevance_scores
    IN  /\ Len(out) <= req[r].n_results
        /\ \A i, j \in 1..Len(out) : i < j =>
             /\ out[i].score >= out[j].score
             /\ out[i].score = out[j].score => out[i].source_index < out[j].source_index
        /\ \A i \in 1..Len(out) :
             /\ out[i].source_index + 1 \in 1..Len(documents)
             /\ "nondict" \notin DOMAIN documents[out[i].source_index + 1]

\* three entries, the last two of equal score in input order behind a higher
\* one that came last in the input, cut to two
C13_Witness ==
  \E r \in Slots :
    /\ Finished(r, "get_document_relevance_scores")
    /\ req[r].n_results = 2
    /\ Len(req[r].result.documents) = 3
    /\ Len(req[r].result.relevance_scores) = 2
    /\ req[r].result.relevance_scores[1].source_index = 2
    /\ req[r].result.relevance_scores[2].source_index = 0
    /\ req[r].result.documents[1] = [content |-> "d2", distance |-> 3]
    /\ req[r].result.documents[2] = [distance |-> 3]

\* C14: build_context returns the fixed sentinel for no documents; for m
\* documents the output is m tagged blocks joined by a blank line, the i-th
\* block made of the tag with number i, a line break and the content of the
\* i-th document, in the given order.
C14_ContextBlocks ==
  \A r \in Slots : Finished(r, "build_context") =>
    LET documents == req[r].result.documents
        out == req[r].result.context
        m == Len(documents)
    IN  IF m = 0 THEN out = <<"no relevant documents found">>
        ELSE /\ Len(out) = 4 * m - 1
             /\ \A i \in 1..m :
                  /\ out[4 * i - 3] = "[doc" \o ToString(i) \o "]"
                  /\ out[4 * i - 2] = "\n"
                  /\ out[4 * i - 1] =
                       (IF "content" \in DOMAIN documents[i] THEN documents[i].content ELSE "")
                  /\ i < m => out[4 * i] = "\n\n"

\* documents given in an order that is not the order of their scores
C14_Witness ==
  \E r \in Slots :
    /\ Finished(r, "build_context")
    /\ Len(req[r].result.documents) >= 2
    /\ req[r].result.documents[1] = [content |-> "d3", rerank_score |-> 3]
    /\ req[r].result.documents[2] = [content |-> "d1", distance |-> 1, rerank_score |-> 7]
    /\ SubSeq(req[r].result.context, 1, 7) =
         <<"[doc1]", "\n", "d3", "\n\n", "[doc2]", "\n", "d1">>

\* the first line of a reply text: from its first token that is not
\* whitespace up to the line break after it, without the spaces at its end
ReplyFirstLine(t) ==
  LET solid == {i \in 1..Len(t) : t[i] \notin {" ", "\n"}}
      first == CHOOSE i \in solid : \A j \in solid : i <= j
      breaks == {i \in first..Len(t) : t[i] = "\n"} \cup {Len(t) + 1}
      end == CHOOSE i \in breaks : \A j \in breaks : i <= j
      inline == {i \in solid : i < end}
      last == CHOOSE i \in inline : \A j \in inline : i >= j
  IN  IF solid = {} THEN << >> ELSE SubSeq(t, first, last)

\* C16: rewrite_query returns the query unchanged without a backend call when
\* rewriting is disabled; enabled, it makes exactly one call and returns the
\* first line of the reply; an empty reply or a failure of the call gives the
\* original query, and nothing is raised.
C16_RewriteFirstLineOrQuery ==
  \A r \in Slots : Finished(r, "rewrite_query") =>
    LET ret == req[r].result.rewritten_query
        calls == req[r].calls
    IN  IF ~enable_query_rewrite THEN ret = req[r].query /\ calls = << >>
        ELSE /\ Len(calls) = 1
             /\ calls[1].fn = "_call_llm"
             /\ ret = IF calls[1].reply.kind = "ok" /\ ReplyFirstLine(calls[1].reply.content) # << >>
                        THEN ReplyFirstLine(calls[1].reply.content)
                      ELSE req[r].query

\* a reply of several lines behind a blank one: the first line is returned
C16_Witness ==
  \E r \in Slots :
    /\ Finished(r, "rewrite_query")
    /\ enable_query_rewrite
    /\ Len(req[r].calls) = 1
    /\ req[r].calls[1].reply = Answer(<<"\n", " ", "x", "y", "\n", "\n", "z">>)
    /\ req[r].result.rewritten_query = <<"x", "y">>

\* ------------------------------------------- candidates and final documents
\* a document without the rerank_score field
Unscored(doc) == [k \in DOMAIN doc \ {"rerank_score"} |-> doc[k]]

\* how often document d occurs in docs, rerank_score ignored
Occurrences(docs, d) == Cardinality({i \in 1..Len(docs) : Unscored(docs[i]) = d})

\* what VectorStore.search returned to the request
SearchReturned(calls) ==
  calls[CHOOSE i \in 1..Len(calls) : calls[i].fn = "search"].returned

\* the scoring call of the request
ScoringCall(calls) == calls[CHOOSE i \in 1..Len(calls) : calls[i].fn = "predict"]

\* C15: in every pipeline result retrieved_documents is a trimmed, re-ordered
\* view of initial_retrieved_documents: rerank_score ignored, every final
\* document occurs in the initial ones and none more often than there, there
\* are at most min(n, number of initial documents) of them, and
\* initial_retrieved_documents is the sequence the vector store returned.
C15_FinalIsViewOfInitial ==
  \A r \in Slots : (Finished(r, "query_database") /\ req[r].result.success) =>
    LET initial == req[r].result.initial_retrieved_documents
        final == req[r].result.retrieved_documents
    IN  /\ \A i \in 1..Len(final) :
             /\ Occurrences(initial, Unscored(final[i])) >= 1
             /\ Occurrences(final, Unscored(final[i])) <= Occurrences(initial, Unscored(final[i]))
        /\ Len(final) <= Min(req[r].n_results, Len(initial))
        /\ initial = SearchReturned(req[r].calls)

\* a chunk the store returned twice is in the result twice, behind a chunk
\* that the reranker moved to the front, and one candidate was cut
C15_Witness ==
  \E r \in Slots :
    /\ Finished(r, "query_database") /\ req[r].result.success
    /\ req[r].result.initial_retrieved_documents = Repeated
    /\ req[r].n_results = 2
    /\ Len(req[r].result.retrieved_documents) = 2
    /\ Unscored(req[r].result.retrieved_documents[1]) = Doc(2)
    /\ Unscored(req[r].result.retrieved_documents[2]) = Doc(1)

\* C19: when reranking succeeds, every candidate is scored, and the output
\* is the first top_k of the candidates in non-increasing order of
\* rerank_score: each output document is a candidate with the score computed
\* for its content, and no candidate left out has a higher score than one
\* that was kept.
C19_RerankOrdersByScore ==
  \A r \in Slots :
    (Finished(r, "query_database") /\ req[r].result.success /\ Scored(req[r].calls)) =>
      LET initial == req[r].result.initial_retrieved_documents
          final == req[r].result.retrieved_documents
          scoring == ScoringCall(req[r].calls)
          Above(docs_scores, x) == Cardinality({i \in 1..Len(docs_scores) : docs_scores[i] > x})
          final_scores == [i \in 1..Len(final) |-> final[i].rerank_score]
      IN  /\ scoring.pairs = Len(initial) /\ Len(scoring.scores) = Len(initial)
          /\ \A k \in 1..Len(initial) :
               scoring.scores[k] = scoring.score_of[initial[k].content]
          /\ Len(final) = Min(req[r].n_results, Len(initial))
          /\ \A i, j \in 1..Len(final) : i < j => final[i].rerank_score >= final[j].rerank_score
          /\ \A i \in 1..Len(final) :
               /\ final[i].rerank_score = scoring.score_of[final[i].content]
               /\ Occurrences(final, Unscored(final[i])) <= Occurrences(initial, Unscored(final[i]))
               /\ Above(final_scores, final[i].rerank_score)
                    = Above(scoring.scores, final[i].rerank_score)

\* three candidates, the first with the lowest score: it is the one cut
C19_Witness ==
  \E r \in Slots :
    /\ Finished(r, "query_database") /\ req[r].result.success /\ Scored(req[r].calls)
    /\ req[r].result.initial_retrieved_documents = <<Doc(1), Doc(2), Doc(3)>>
    /\ ScoringCall(req[r].calls).scores = <<3, 7, 7>>
    /\ req[r].n_results = 2
    /\ req[r].result.retrieved_documents =
         <<WithRerankScore(Doc(2), 7), WithRerankScore(Doc(3), 7)>>

\* the documents event or the result of a request that got past reranking
Candidates_after(q) ==
  IF q.kind = "query_database" THEN q.result.initial_retrieved_documents
  ELSE q.events[1].initial_documents

\* C20: no stage changes what it was given: after rerank_documents, on every
\* path, the candidate list is the list the store returned and no candidate
\* in it has a rerank_score; after the generation call, blocking or
\* streaming, the caller's history is the history that was passed.
C20_InputsUnchanged ==
  \A r \in Slots :
    /\ Reranked(req[r]) =>
         /\ Candidates_after(req[r]) = SearchReturned(req[r].calls)
         /\ \A i \in 1..Len(Candidates_after(req[r])) :
              "rerank_score" \notin DOMAIN Candidates_after(req[r])[i]
    /\ \A i \in 1..Len(req[r].calls) :
         "history" \in DOMAIN req[r].calls[i] => req[r].calls[i].history = req[r].history

\* a blocking request with a history of one turn was reranked with scores and
\* answered
C20_Witness ==
  \E r \in Slots :
    /\ Finished(r, "query_database") /\ req[r].result.success
    /\ Scored(req[r].calls) /\ Generated(req[r])
    /\ req[r].history = OneTurn
    /\ Len(req[r].calls[Len(req[r].calls)].messages) = Len(OneTurn) + 1
    /\ Len(req[r].result.initial_retrieved_documents) >= 2
    /\ "rerank_score" \in DOMAIN req[r].result.retrieved_documents[1]

\* ------------------------------------------------------- order of stages
\* the positions in calls of the calls of function fn
CallsOf(calls, fn) == {i \in 1..Len(calls) : calls[i].fn = fn}

\* the backend calls of the rewrite stage and of the generation stage
RewriteCalls(calls) == {i \in CallsOf(calls, "_call_llm") : "history" \notin DOMAIN calls[i]}
GenerationCalls(calls) == {i \in CallsOf(calls, "_call_llm") : "history" \in DOMAIN calls[i]}

\* the stage a call belongs to, in the order of the pipeline
StageNo(call) ==
  IF call.fn = "_call_llm" THEN (IF "history" \in DOMAIN call THEN 6 ELSE 1)
  ELSE IF call.fn = "embed_query" THEN 2
  ELSE IF call.fn = "search" THEN 3
  ELSE IF call.fn = "CrossEncoder" THEN 4
  ELSE 5

\* the oversampled count for n, from the configuration: ceil(n * multiplier),
\* at least n, at most the cap
Oversampled(n) ==
  LET extra == (n * retrieval_multiplier + 9) \div 10
      total == IF extra > n THEN extra ELSE n
  IN  IF max_retrieve_results # 0 /\ total > max_retrieve_results
        THEN max_retrieve_results ELSE total

\* the request of a slot got past reranking: what it reports
Report(q) == IF q.kind = "query_database" THEN q.result ELSE q.events[1]

C25_NoStageRetried ==
  \A r \in Slots :
    /\ Cardinality(RewriteCalls(req[r].calls)) <= 1
    /\ Cardinality(GenerationCalls(req[r].calls)) <= 1
    /\ \A fn \in {"embed_query", "search", "CrossEncoder", "predict"} :
         Cardinality(CallsOf(req[r].calls, fn)) <= 1

\* a request whose reranker did not load and whose generation call was
\* refused: every stage was called once
C25_Witness ==
  \E r \in Slots :
    /\ Finished(r, "query_database")
    /\ LoadFailed(req[r].calls) /\ GenerationFailed(req[r])
    /\ Cardinality(RewriteCalls(req[r].calls)) = 1
    /\ Cardinality(GenerationCalls(req[r].calls)) = 1
    /\ \A fn \in {"embed_query", "search", "CrossEncoder"} :
         Cardinality(CallsOf(req[r].calls, fn)) = 1

\* C26: the score of a relevance entry is the rerank_score of its document
\* when it has one, else 1 minus its distance when it has one, else 0; a
\* document with neither is kept, at score 0; source_index is the position of
\* the document in the input.  (Scores and distances in tenths.)
C26_RelevanceScoreOfDocument ==
  \A r \in Slots : Finished(r, "get_document_relevance_scores") =>
    LET documents == req[r].result.documents
        out == req[r].result.relevance_scores
        dicts == {i \in 1..Len(documents) : "nondict" \notin DOMAIN documents[i]}
        ScoreOf(doc) == IF "rerank_score" \in DOMAIN doc THEN doc.rerank_score
                        ELSE IF "distance" \in DOMAIN doc THEN 10 - doc.distance
                        ELSE 0
    IN  /\ Len(out) = Min(req[r].n_results, Cardinality(dicts))
        /\ \A i \in 1..Len(out) :
             /\ out[i].source_index + 1 \in dicts
             /\ out[i].score = ScoreOf(documents[out[i].source_index + 1])
        /\ \A i, j \in 1..Len(out) : i # j => out[i].source_index # out[j].source_index

\* a document with a rerank score and a distance, one with a distance only
\* and one with neither, all three in the output
C26_Witness ==
  \E r \in Slots :
    /\ Finished(r, "get_document_relevance_scores")
    /\ req[r].result.documents =
         <<[content |-> "d2"], [content |-> "d1", distance |-> 1, rerank_score |-> 7],
           [content |-> "d1", distance |-> 1]>>
    /\ req[r].result.relevance_scores =
         <<[score |-> 9, source_index |-> 2], [score |-> 7, source_index |-> 1],
           [score |-> 0, source_index |-> 0]>>

\* ------------------------------------------------ events of a stream
\* C22: an event stream has at most one documents event; when there is one it
\* is the first event, and every thinking, content and done event comes
\* after it.
C22_DocumentsOnceAndFirst ==
  \A r \in Slots : req[r].kind = "query_database_stream" =>
    LET events == req[r].events
    IN  /\ EventsOf(events, {"documents"}) \subseteq {1}
        /\ \A i \in EventsOf(events, {"thinking", "content", "done"}) :
             i > 1 /\ events[1].type = "documents"

\* a finished stream: documents, then thinking, content and done
C22_Witness ==
  \E r \in Slots :
    /\ Ended(r)
    /\ Len(req[r].events) >= 4
    /\ req[r].events[1].type = "documents"
    /\ req[r].events[2].type = "thinking"
    /\ req[r].events[3].type = "content"
    /\ req[r].events[Len(req[r].events)].type = "done"

\* processing the line raises an exception other than a JSON decoding error
LineRaises(line) ==
  \/ line.raw \in {"undecodable", "nondict"}
  \/ line.raw = "dict" /\ line.message = "bad"
  \/ line.raw = "dict" /\ line.message = "dict" /\ Truthy(line.content) /\ ~line.content.isstr

\* the events a step added to the stream of slot r
NewEvents(r) == SubSeq(req'[r].events, Len(req[r].events) + 1, Len(req'[r].events))

\* C23: while the lines of the backend response are consumed, a line that is
\* not valid JSON yields no event, changes neither accumulator and the next
\* line is processed; any other exception on a line yields one error event
\* and the stream is not ended by it: the lines after it are processed.
C23_LineFailuresDoNotEndStream ==
  [][\A r \in Slots, line \in StreamLines : StreamLine(r, line) =>
       /\ line.raw = "malformed" =>
            /\ NewEvents(r) = << >>
            /\ req'[r].full_content = req[r].full_content
            /\ req'[r].thinking_content = req[r].thinking_content
            /\ req'[r].pc = "lines"
       /\ LineRaises(line) =>
            /\ Cardinality(EventsOf(NewEvents(r), {"error"})) = 1
            /\ req'[r].pc = "lines"]_vars

\* the reasoning text of a line: the text of the first of thinking,
\* reasoning, tool_calls that is not empty, or no text
ReasoningPiece(line) ==
  IF Truthy(line.thinking) THEN line.thinking.text
  ELSE IF Truthy(line.reasoning) THEN line.reasoning.text
  ELSE IF Truthy(line.tool_calls) THEN line.tool_calls.text
  ELSE << >>

\* C24: for each line the reasoning text comes from the first field that is
\* not empty, in the order thinking, reasoning, tool_calls (as text); a line
\* yields at most one thinking event, none when the three fields are absent
\* or empty, and the event carries the whole reasoning text accumulated so
\* far, which is also what done carries.
C24_ReasoningByPriority ==
  [][\A r \in Slots, line \in ReasoningLines : StreamLine(r, line) =>
       LET thinking == EventsOf(NewEvents(r), {"thinking"})
           accumulated == req[r].thinking_content \o ReasoningPiece(line)
       IN  /\ Cardinality(thinking) <= 1
           /\ thinking = {} <=> ReasoningPiece(line) = << >>
           /\ \A i \in thinking : NewEvents(r)[i].content = accumulated
           /\ \A i \in EventsOf(NewEvents(r), {"done"}) :
                NewEvents(r)[i].thinking = accumulated]_vars

\* ------------------------------------------------- messages and histories
\* C28: the messages chat_stream sends hold nothing after the message that
\* carries the done event, whatever deletions and history resets arrive on
\* the same name while the stream is in flight.
C28_NoMessageAfterDone ==
  \A r \in Slots : req[r].kind = "chat_stream" =>
    \A i, j \in 1..Len(req[r].sse) : i < j => req[r].sse[i][2].type # "done"

\* C29: no stored history holds an assistant turn with an empty content,
\* whether a blocking chat or a stream recorded it.
C29_NoEmptyAssistantTurn ==
  \A db \in DOMAIN chat_histories : \A i \in 1..Len(chat_histories[db]) :
    chat_histories[db][i].role = "assistant" => chat_histories[db][i].content # << >>

\* C27: every stored history has an even number of entries that alternate
\* user, assistant, user, assistant, ... from its first entry on, whatever
\* chats, streams, clears and deletions came before and however they
\* interleaved: no truncation leaves half of a turn
C27_HistoryAlternates ==
  \A db \in DOMAIN chat_histories :
    LET history == chat_histories[db]
    IN  /\ Len(history) % 2 = 0
        /\ \A i \in 1..Len(history) :
             history[i].role = IF i % 2 = 1 THEN "user" ELSE "assistant"

\* a history cut to the limit twice, its oldest two turns gone
C27_Witness ==
  /\ "docs" \in DOMAIN chat_histories
  /\ Len(chat_histories["docs"]) = MaxHistory
  /\ chat_histories["docs"][1] = UserTurn(<<"q2">>)
  /\ chat_histories["docs"][MaxHistory].role = "assistant"

\* a step of an operation on the history of `name`: a chat or a chat stream
\* that starts on it, a stream on it that goes on, its history read or cleared
OperatesOn(name) ==
  \/ \E r \in Slots : /\ Free(r)
                       /\ req'[r].kind \in {"chat", "chat_stream"}
                       /\ req'[r].database_name = name
  \/ \E r \in Slots : /\ req[r].kind = "chat_stream"
                       /\ req[r].database_name = name
                       /\ req'[r] # req[r]
                       /\ req'[r].kind = "chat_stream"
  \/ GetChatHistory(name)
  \/ ClearChatHistory(name)

\* C30: a chat, a chat stream, a history read or a history clear on one name
\* leaves the history stored under every other name as it was
C30_OtherHistoriesUntouched ==
  [][\A name \in Names : OperatesOn(name) =>
       \A other \in Names \ {name} :
         /\ other \in DOMAIN chat_histories' <=> other \in DOMAIN chat_histories
         /\ StoredNext(other) = Stored(other)]_vars

\* both names hold a turn, and one of them holds more than the other
C30_Witness ==
  /\ Names \subseteq DOMAIN chat_histories
  /\ Len(chat_histories["docs"]) = 2
  /\ Len(chat_histories["ghost"]) = 4
====
